---- MODULE Spec2Model ----
(***************************************************************************)
(* A model of src/webserver.py: the accept loop of SimpleHTTPServer.start, *)
(* one handler thread per accepted connection (handle_client), the request *)
(* reader, the request-line parser, the path resolver of handle_get and    *)
(* the response writer.                                                    *)
(*                                                                         *)
(* Text is a sequence of one-character strings, so that splitting,         *)
(* percent-decoding and path normalisation are computed character by       *)
(* character as the library functions compute them.  Bodies are sequences  *)
(* of string pieces; their byte length is the sum of the pieces' lengths.  *)
(***************************************************************************)
EXTENDS Integers, Sequences, FiniteSets, TLC

(***************************************************************************)
(* Bounds of the model.                                                    *)
(***************************************************************************)
\* connections the listener may accept in one run
MaxConns == 2
\* whitespace-separated tokens of an enumerated request line
MaxLineTokens == 4
\* path pieces of an enumerated request target
MaxTargetPieces == 3

(***************************************************************************)
(* Program constants.                                                      *)
(***************************************************************************)
MAX_REQUEST_BYTES == 65536
RECV_SIZE == 4096

(***************************************************************************)
(* Text helpers.                                                           *)
(***************************************************************************)
Min(a, b) == IF a <= b THEN a ELSE b

\* the concatenation of a sequence of sequences
Concat[ss \in Seq(Seq(STRING))] == IF ss = <<>> THEN <<>> ELSE Head(ss) \o Concat[Tail(ss)]

\* a character sequence as one string
Str[cs \in Seq(STRING)] == IF cs = <<>> THEN "" ELSE Head(cs) \o Str[Tail(cs)]

StartsWith[s \in Seq(STRING), p \in Seq(STRING)] == Len(s) >= Len(p) /\ SubSeq(s, 1, Len(p)) = p

EndsWith[s \in Seq(STRING), p \in Seq(STRING)] == Len(s) >= Len(p) /\ SubSeq(s, Len(s) - Len(p) + 1, Len(s)) = p

\* the least index at which p occurs in s, 0 when it does not
Find[s \in Seq(STRING), p \in Seq(STRING)] ==
    LET hits == {i \in 1..(Len(s) - Len(p) + 1) : SubSeq(s, i, i + Len(p) - 1) = p}
    IN  IF hits = {} THEN 0 ELSE CHOOSE i \in hits : \A j \in hits : i <= j

\* str.split(sep, 1)[0]
SplitFirst[s \in Seq(STRING), sep \in Seq(STRING)] ==
    LET i == Find[s, sep] IN IF i = 0 THEN s ELSE SubSeq(s, 1, i - 1)

\* str.split(c) for a one-character separator: empty fields are kept
SplitOn[s \in Seq(STRING), c \in STRING] ==
    LET i == Find[s, <<c>>]
    IN  IF i = 0 THEN <<s>>
        ELSE <<SubSeq(s, 1, i - 1)>> \o SplitOn[SubSeq(s, i + 1, Len(s)), c]

Whitespace == {" ", "\t", "\r", "\n"}

\* str.split(): runs of whitespace separate, no empty fields
SplitWs[s \in Seq(STRING)] ==
    LET starts == {i \in 1..Len(s) : s[i] \notin Whitespace}
    IN  IF starts = {} THEN <<>>
        ELSE LET b == CHOOSE i \in starts : \A j \in starts : i <= j
                 ends == {i \in b..Len(s) : i = Len(s) \/ s[i + 1] \in Whitespace}
                 e == CHOOSE i \in ends : \A j \in ends : i <= j
             IN  <<SubSeq(s, b, e)>> \o SplitWs[SubSeq(s, e + 1, Len(s))]

\* sep.join(parts)
JoinWith[parts \in Seq(Seq(STRING)), sep \in Seq(STRING)] ==
    IF parts = <<>> THEN <<>>
    ELSE IF Len(parts) = 1 THEN parts[1]
    ELSE parts[1] \o sep \o JoinWith[Tail(parts), sep]

(***************************************************************************)
(* urllib.parse.unquote and the posixpath functions handle_get calls.      *)
(***************************************************************************)
HexDigits == {"0", "1", "2", "3", "4", "5", "6", "7", "8", "9",
              "a", "b", "c", "d", "e", "f", "A", "B", "C", "D", "E", "F"}

HexVal(c) ==
    CASE c = "0" -> 0 [] c = "1" -> 1 [] c = "2" -> 2 [] c = "3" -> 3
      [] c = "4" -> 4 [] c = "5" -> 5 [] c = "6" -> 6 [] c = "7" -> 7
      [] c = "8" -> 8 [] c = "9" -> 9
      [] c \in {"a", "A"} -> 10 [] c \in {"b", "B"} -> 11
      [] c \in {"c", "C"} -> 12 [] c \in {"d", "D"} -> 13
      [] c \in {"e", "E"} -> 14 [] c \in {"f", "F"} -> 15

\* the character of a decoded byte; the bytes the enumerated targets can
\* produce are tabulated, any other is shown as the replacement character
Chr(b) ==
    CASE b = 37 -> "%" [] b = 46 -> "." [] b = 47 -> "/" [] b = 63 -> "?"
      [] b = 32 -> " " [] b = 97 -> "a"
      [] OTHER -> "\\uFFFD"

\* a "%" followed by two hex digits becomes the byte they name; any other
\* "%" is kept as it is; the result is not decoded a second time
unquote[s \in Seq(STRING)] ==
    IF s = <<>> THEN <<>>
    ELSE IF s[1] = "%" /\ Len(s) >= 3 /\ s[2] \in HexDigits /\ s[3] \in HexDigits
         THEN <<Chr(16 * HexVal(s[2]) + HexVal(s[3]))>> \o unquote[SubSeq(s, 4, Len(s))]
         ELSE <<s[1]>> \o unquote[Tail(s)]

isabs[p \in Seq(STRING)] == StartsWith[p, <<"/">>]

\* posixpath.join(a, b)
join[a \in Seq(STRING), b \in Seq(STRING)] ==
    IF isabs[b] THEN b
    ELSE IF a = <<>> \/ EndsWith[a, <<"/">>] THEN a \o b
    ELSE a \o <<"/">> \o b

\* the component loop of posixpath.normpath: "" and "." are dropped, ".."
\* removes the component before it, is dropped at the top of an absolute
\* path and is kept at the top of a relative one
NormComps[comps \in Seq(Seq(STRING)), acc \in Seq(Seq(STRING)), rooted \in BOOLEAN] ==
    IF comps = <<>> THEN acc
    ELSE LET c == Head(comps)
             rest == Tail(comps)
         IN  IF c = <<>> \/ c = <<".">> THEN NormComps[rest, acc, rooted]
             ELSE IF c # <<".", ".">>
                     \/ (~rooted /\ acc = <<>>)
                     \/ (acc # <<>> /\ acc[Len(acc)] = <<".", ".">>)
                  THEN NormComps[rest, Append(acc, c), rooted]
             ELSE IF acc # <<>>
                  THEN NormComps[rest, SubSeq(acc, 1, Len(acc) - 1), rooted]
             ELSE NormComps[rest, acc, rooted]

\* posixpath.normpath: exactly two leading slashes are kept as two
normpath[p \in Seq(STRING)] ==
    IF p = <<>> THEN <<".">>
    ELSE LET slashes == IF ~isabs[p] THEN 0
                        ELSE IF StartsWith[p, <<"/", "/">>] /\ ~StartsWith[p, <<"/", "/", "/">>]
                             THEN 2 ELSE 1
             comps == NormComps[SplitOn[p, "/"], <<>>, slashes > 0]
             body == JoinWith[comps, <<"/">>]
             out == (IF slashes = 2 THEN <<"/", "/">>
                     ELSE IF slashes = 1 THEN <<"/">> ELSE <<>>) \o body
         IN  IF out = <<>> THEN <<".">> ELSE out

\* the working directory of the process
Cwd == <<"/", "s", "r", "v">>

\* posixpath.abspath
abspath[p \in Seq(STRING)] == IF isabs[p] THEN normpath[p] ELSE normpath[join[Cwd, p]]

\* the components posixpath.commonpath compares: "" and "." are left out
PathComps[p \in Seq(STRING)] == SelectSeq(SplitOn[p, "/"], LAMBDA c : c # <<>> /\ c # <<".">>)

\* the longest common prefix of two component lists
CommonPrefix[a \in Seq(Seq(STRING)), b \in Seq(Seq(STRING))] ==
    LET n == Min(Len(a), Len(b))
        same == {i \in 0..n : \A j \in 1..i : a[j] = b[j]}
        k == CHOOSE i \in same : \A j \in same : j <= i
    IN  SubSeq(a, 1, k)

\* posixpath.commonpath([a, b]); "ValueError" when one path is absolute and
\* the other is not
commonpath[a \in Seq(STRING), b \in Seq(STRING)] ==
    IF isabs[a] # isabs[b] THEN <<"ValueError">>
    ELSE (IF isabs[a] THEN <<"/">> ELSE <<>>)
         \o JoinWith[CommonPrefix[PathComps[a], PathComps[b]], <<"/">>]

\* the command-line argument for the document root (the default of parse_args)
RootArg == <<".", "/", "w", "w", "w">>

\* SimpleHTTPServer.__init__: self.document_root
document_root == abspath[normpath[RootArg]]

(***************************************************************************)
(* The filesystem the server runs on.  An absolute path names the file the *)
(* kernel reaches by walking its components from the top, ".." going up.   *)
(***************************************************************************)
WalkComps[p \in Seq(STRING)] == NormComps[SplitOn[p, "/"], <<>>, TRUE]

FsKey[p \in Seq(STRING)] == "/" \o Str[JoinWith[WalkComps[p], <<"/">>]]

\* the regular files and their contents; one file is empty, one lies beside
\* the root under a name the root's name is a string prefix of, three lie
\* above it, one of them an index.html
FileContent(key) ==
    CASE key = "/srv/www/index.html" -> <<"<h1>", "home", "</h1>">>
      [] key = "/srv/www/a" -> <<"ab", "c">>
      [] key = "/srv/www/e" -> <<>>
      [] key = "/srv/www/d/index.html" -> <<"<p>", "d", "</p>">>
      [] key = "/srv/wwww" -> <<"beside">>
      [] key = "/srv/index.html" -> <<"<p>", "srv", "</p>">>
      [] key = "/srv/s" -> <<"above">>
      [] key = "/s" -> <<"top">>
      [] OTHER -> <<>>

RegularFiles == {"/srv/www/index.html", "/srv/www/a", "/srv/www/e",
                 "/srv/www/d/index.html", "/srv/wwww", "/srv/index.html",
                 "/srv/s", "/s"}

Directories == {"/", "/srv", "/srv/www", "/srv/www/d", "/srv/www/n"}

\* os.path.exists(p) and os.path.isfile(p)
exists(p) == FsKey[p] \in RegularFiles \cup Directories

isfile(p) == FsKey[p] \in RegularFiles

\* len(body): the number of bytes of a body
BodyLen[body \in Seq(STRING)] == IF body = <<>> THEN 0 ELSE Len(Head(body)) + BodyLen[Tail(body)]

Digit(d) ==
    CASE d = 0 -> "0" [] d = 1 -> "1" [] d = 2 -> "2" [] d = 3 -> "3"
      [] d = 4 -> "4" [] d = 5 -> "5" [] d = 6 -> "6" [] d = 7 -> "7"
      [] d = 8 -> "8" [] d = 9 -> "9"

\* str(n) of a natural number
Decimal[n \in Nat] == IF n < 10 THEN Digit(n) ELSE Decimal[n \div 10] \o Digit(n % 10)

\* mimetypes.guess_type(file_path)[0], "" for None: decided by the extension
guess_type(p) ==
    IF EndsWith[p, <<".", "h", "t", "m", "l">>] THEN "text/html" ELSE ""

(***************************************************************************)
(* The response writer and the error responder.                            *)
(***************************************************************************)
NoOverride == -1

\* _send_response with Content-Length taken from the number of pieces of the
\* body instead of its number of bytes
send_response_pieces(code, text, headers, body, content_length_override) ==
    LET base == << <<"Date", "now">>,
                   <<"Server", "SimpleHTTPServer/1.0">>,
                   <<"Content-Length",
                     Decimal[IF content_length_override # NoOverride
                             THEN content_length_override ELSE Len(body)]>>,
                   <<"Connection", "close">> >>
    IN  << [k |-> "line", version |-> "HTTP/1.1", code |-> code, text |-> text],
           [k |-> "headers", headers |-> base \o headers] >>
        \o (IF body # <<>> THEN << [k |-> "body", body |-> body] >> ELSE <<>>)

\* _send_response with the caller's headers put before its own
send_response_type_first(code, text, headers, body, content_length_override) ==
    LET base == << <<"Date", "now">>,
                   <<"Server", "SimpleHTTPServer/1.0">>,
                   <<"Content-Length",
                     Decimal[IF content_length_override # NoOverride
                             THEN content_length_override ELSE BodyLen[body]]>>,
                   <<"Connection", "close">> >>
    IN  << [k |-> "line", version |-> "HTTP/1.1", code |-> code, text |-> text],
           [k |-> "headers", headers |-> headers \o base] >>
        \o (IF body # <<>> THEN << [k |-> "body", body |-> body] >> ELSE <<>>)

\* line 155: the bytes of the status line
response_line(p) == p.version \o " " \o Decimal[p.code] \o " " \o p.text \o "\r\n"

\* line 154: the bytes of the header block, each header as "k: v\r\n", then
\* the empty line
HeaderLines[hs \in Seq(Seq(STRING))] ==
    IF hs = <<>> THEN ""
    ELSE hs[1][1] \o ": " \o hs[1][2] \o "\r\n" \o HeaderLines[Tail(hs)]

header_text(p) == HeaderLines[p.headers] \o "\r\n"

\* _send_response: the payloads of its sendall calls, in order; the body is
\* sent only when it is not empty
send_response(code, text, headers, body, content_length_override) ==
    LET base == << <<"Date", "now">>,
                   <<"Server", "SimpleHTTPServer/1.0">>,
                   <<"Content-Length",
                     Decimal[IF content_length_override # NoOverride
                             THEN content_length_override ELSE BodyLen[body]]>>,
                   <<"Connection", "close">> >>
    IN  << [k |-> "line", version |-> "HTTP/1.1", code |-> code, text |-> text],
           [k |-> "headers", headers |-> base \o headers] >>
        \o (IF body # <<>> THEN << [k |-> "body", body |-> body] >> ELSE <<>>)

\* send_ok that declares no length
send_ok_no_length(body, ctype, content_length_override) ==
    send_response(200, "OK", << <<"Content-Type", ctype>> >>, body, 0)

\* lines 162-164
send_ok(body, ctype, content_length_override) ==
    send_response(200, "OK", << <<"Content-Type", ctype>> >>, body,
                  content_length_override)

\* the page of send_error: the code and the text, each twice, in fixed text
ErrorPage(code, text) ==
    << "<!DOCTYPE html>\n<html><head><meta charset=\"utf-8\"><title>",
       Decimal[code], " ", text,
       "</title></head>\n<body><h1>",
       Decimal[code], " ", text,
       "</h1><p>The requested resource could not be processed.</p></body></html>" >>

\* an error answered with its status text alone, as plain text
send_error_plain(code, text) ==
    send_response(code, text, << <<"Content-Type", "text/plain">> >>, <<text>>, NoOverride)

send_error(code, text) ==
    send_response(code, text, << <<"Content-Type", "text/html; charset=utf-8">> >>,
                  ErrorPage(code, text), NoOverride)

(***************************************************************************)
(* handle_get: the path resolver, the containment check and the file read. *)
(***************************************************************************)
IndexName == <<"i", "n", "d", "e", "x", ".", "h", "t", "m", "l">>

\* the path left as it is, whatever its end
without_index(path) == path

\* lines 108-109: "index.html" is joined to an empty path and to one that
\* ends with "/"
with_index(path) ==
    IF path = <<>> \/ EndsWith[path, <<"/">>] THEN join[path, IndexName] ELSE path

\* lines 104-111: the filesystem path of a request target
resolve_path[raw_path \in Seq(STRING)] ==
    LET p1 == SplitFirst[raw_path, <<"?">>]
        p2 == unquote[p1]
        p3 == IF StartsWith[p2, <<"/">>] THEN Tail(p2) ELSE p2
        p4 == with_index(p3)
    IN  abspath[normpath[join[document_root, p4]]]

\* the containment check made on the characters of the two paths
outside_root_by_prefix(file_path) == ~StartsWith[file_path, document_root]

\* lines 114-120: TRUE when the request is refused as a traversal
outside_root(file_path) ==
    LET common == commonpath[document_root, file_path]
    IN  common = <<"ValueError">> \/ common # document_root

\* the 200 response for HEAD without the length of the file passed on
ok_response_no_override(body, content_type, is_head) ==
    IF is_head THEN send_ok(<<>>, content_type, NoOverride)
    ELSE send_ok(body, content_type, NoOverride)

\* lines 137-140: the 200 response, without the body for HEAD
ok_response(body, content_type, is_head) ==
    IF is_head THEN send_ok(<<>>, content_type, BodyLen[body])
    ELSE send_ok(body, content_type, NoOverride)

\* the file streamed: the status line of the 200 is out when the read fails
read_error_after_status_line ==
    << [k |-> "line", version |-> "HTTP/1.1", code |-> 200, text |-> "OK"] >>

\* lines 126-131: open or read raised before anything was sent; the except
\* clause answers 500
read_error_response == send_error(500, "Internal Server Error")

\* what handle_get does with a target: the payloads it sends, the path it
\* resolved, whether it tested that path for existence, whether it opened it
\* and how the read ended; read_ok is whether open and read succeed
handle_get[raw_path \in Seq(STRING), is_head \in BOOLEAN, read_ok \in BOOLEAN] ==
    LET file_path == resolve_path[raw_path]
        body == FileContent(FsKey[file_path])
        guessed == guess_type(file_path)
        content_type == IF guessed = "" THEN "application/octet-stream" ELSE guessed
    IN  IF outside_root(file_path)
        THEN [sends |-> send_error(403, "Forbidden"), file_path |-> file_path,
              tested |-> FALSE, opened |-> FALSE, read |-> "none"]
        ELSE IF ~(exists(file_path) /\ isfile(file_path))
        THEN [sends |-> send_error(404, "Not Found"), file_path |-> file_path,
              tested |-> TRUE, opened |-> FALSE, read |-> "none"]
        ELSE IF ~read_ok
        THEN [sends |-> read_error_response,
              file_path |-> file_path, tested |-> TRUE, opened |-> TRUE,
              read |-> "error"]
        ELSE [sends |-> ok_response(body, content_type, is_head),
              file_path |-> file_path, tested |-> TRUE, opened |-> TRUE,
              read |-> "ok"]

(***************************************************************************)
(* handle_client, lines 64-82: the request parser.                         *)
(***************************************************************************)
CRLF == <<"\r", "\n">>

GET == <<"G", "E", "T">>
HEAD == <<"H", "E", "A", "D">>
POST == <<"P", "O", "S", "T">>
HTTP10 == <<"H", "T", "T", "P", "/", "1", ".", "0">>
HTTP11 == <<"H", "T", "T", "P", "/", "1", ".", "1">>
HTTP20 == <<"H", "T", "T", "P", "/", "2", ".", "0">>

NoAccess == [sends |-> <<>>, file_path |-> <<>>, tested |-> FALSE, opened |-> FALSE,
             read |-> "none"]

\* the checks of the request line with the method checked before the version
parse_request_method_first(request, read_ok) ==
    LET first_line == SplitFirst[request, CRLF]
        parts == SplitWs[first_line]
    IN  IF Len(parts) # 3
        THEN [NoAccess EXCEPT !.sends = send_error(400, "Bad Request")]
        ELSE IF parts[1] \notin {GET, HEAD}
        THEN [NoAccess EXCEPT !.sends = send_error(405, "Method Not Allowed")]
        ELSE IF parts[3] \notin {HTTP10, HTTP11}
        THEN [NoAccess EXCEPT !.sends = send_error(400, "Bad Request")]
        ELSE handle_get[parts[2], parts[1] = HEAD, read_ok]

\* the checks of the request line in the order the code makes them
parse_request(request, read_ok) ==
    LET first_line == SplitFirst[request, CRLF]
        parts == SplitWs[first_line]
    IN  IF Len(parts) # 3
        THEN [NoAccess EXCEPT !.sends = send_error(400, "Bad Request")]
        ELSE IF parts[3] \notin {HTTP10, HTTP11}
        THEN [NoAccess EXCEPT !.sends = send_error(400, "Bad Request")]
        ELSE IF parts[1] \notin {GET, HEAD}
        THEN [NoAccess EXCEPT !.sends = send_error(405, "Method Not Allowed")]
        ELSE handle_get[parts[2], parts[1] = HEAD, read_ok]

(***************************************************************************)
(* What a peer sends: a request line of tokens separated by one space,     *)
(* the characters after it, then fill further header bytes that hold no    *)
(* line end.                                                               *)
(***************************************************************************)
StreamHead(s) == JoinWith[s.toks, <<" ">>] \o s.tail

StreamLen(s) == Len(StreamHead(s)) + s.fill

\* the first n bytes of what the peer sends, the fill bytes left out
DataHead(s, n) == SubSeq(StreamHead(s), 1, Min(n, Len(StreamHead(s))))

\* b"\r\n\r\n" in data
has_terminator(s, n) == Find[DataHead(s, n), CRLF \o CRLF] # 0

\* data.decode("utf-8", errors="replace"): the streams are ASCII; of the
\* fill bytes, which follow a complete request line, one stands for all
decoded(s, n) ==
    DataHead(s, n) \o (IF n > Len(StreamHead(s)) THEN <<"x">> ELSE <<>>)

Conns == 1..MaxConns

VARIABLES
    lpc,        \* start(): "accept" in the loop, "stopped" after it, "exited"
    cause,      \* what ended the accept loop
    pc,         \* each handler thread's position
    sock,       \* each connection socket: "none", "open", "closed"
    stream,     \* what each peer sends
    got,        \* len(data) in _recv_until_headers_end
    nreads,     \* the recv calls made
    stop,       \* why the reader loop ended, until the handler goes on
    pending,    \* the sendall calls of the current _send_response still to make
    wire,       \* the payloads written to each socket
    handling,   \* TRUE inside the except clause of handle_client
    started,    \* the responses _send_response was called for, in order
    sendfails,  \* the sendall calls that raised
    access,     \* the path handle_get resolved and what it did with it
    uncaught    \* TRUE when an exception left handle_client

vars == <<lpc, cause, pc, sock, stream, got, nreads, stop, pending, wire,
          handling, started, sendfails, access, uncaught>>

listener_vars == <<lpc, cause>>

NoStream == [toks |-> <<>>, tail |-> <<>>, fill |-> 0]

Init ==
    /\ lpc = "accept"
    /\ cause = "none"
    /\ pc = [c \in Conns |-> "idle"]
    /\ sock = [c \in Conns |-> "none"]
    /\ stream = [c \in Conns |-> NoStream]
    /\ got = [c \in Conns |-> 0]
    /\ nreads = [c \in Conns |-> 0]
    /\ stop = [c \in Conns |-> "none"]
    /\ pending = [c \in Conns |-> <<>>]
    /\ wire = [c \in Conns |-> <<>>]
    /\ handling = [c \in Conns |-> FALSE]
    /\ started = [c \in Conns |-> <<>>]
    /\ sendfails = [c \in Conns |-> 0]
    /\ access = [c \in Conns |-> NoAccess]
    /\ uncaught = [c \in Conns |-> FALSE]

(***************************************************************************)
(* SimpleHTTPServer.start: the accept loop.                                *)
(***************************************************************************)
\* the connections are numbered in the order they arrive
NextToArrive(c) == pc[c] = "idle" /\ sock[c] = "none"
                   /\ \A d \in Conns : d < c => sock[d] # "none"

\* the handler called in the accept loop itself: no accept while one runs
accept_ready_serial(c) ==
    lpc = "accept" /\ NextToArrive(c)
    /\ \A d \in Conns : pc[d] \notin {"recv", "parse", "send"}

\* lines 50-53: accept() returns while the loop runs; nothing about the
\* handlers already started is consulted
accept_ready(c) == lpc = "accept" /\ NextToArrive(c)

\* accept() returns a connection and its handler thread is started
Accept(c, s) ==
    /\ accept_ready(c)
    /\ sock' = [sock EXCEPT ![c] = "open"]
    /\ pc' = [pc EXCEPT ![c] = "recv"]
    /\ stream' = [stream EXCEPT ![c] = s]
    /\ UNCHANGED <<lpc, cause, got, nreads, stop, pending, wire, handling,
                   started, sendfails, access, uncaught>>

\* accept() returns a connection and Thread.start() raises: the exception is
\* not a KeyboardInterrupt, the finally clause closes the listening socket and
\* start() ends; the connection socket is left open with no handler
StartFails(c) ==
    /\ accept_ready(c)
    /\ sock' = [sock EXCEPT ![c] = "open"]
    /\ pc' = [pc EXCEPT ![c] = "unstarted"]
    /\ lpc' = "stopped"
    /\ cause' = "thread_error"
    /\ UNCHANGED <<stream, got, nreads, stop, pending, wire, handling,
                   started, sendfails, access, uncaught>>

\* accept() raises OSError: start() ends the same way
AcceptFails ==
    /\ lpc = "accept"
    /\ lpc' = "stopped"
    /\ cause' = "accept_error"
    /\ UNCHANGED <<pc, sock, stream, got, nreads, stop, pending, wire, handling,
                   started, sendfails, access, uncaught>>

\* lines 54-58: KeyboardInterrupt ends the loop, the listening socket is closed
Interrupt ==
    /\ lpc = "accept"
    /\ lpc' = "stopped"
    /\ cause' = "interrupt"
    /\ UNCHANGED <<pc, sock, stream, got, nreads, stop, pending, wire, handling,
                   started, sendfails, access, uncaught>>

InFlight(c) == pc[c] \in {"recv", "parse", "send"}

\* handler threads that outlive main()
pc_of_surviving_thread(c) == pc[c]

\* what the end of the process does to a handler thread: line 52 makes the
\* threads daemon threads, which the interpreter does not wait for
pc_at_exit(c) == IF InFlight(c) THEN "killed" ELSE pc[c]

\* main() returns after start(): the process ends and the system closes the
\* sockets it held
Exit ==
    /\ lpc = "stopped"
    /\ lpc' = "exited"
    /\ pc' = [c \in Conns |-> pc_at_exit(c)]
    /\ sock' = [c \in Conns |-> IF sock[c] = "open" THEN "closed" ELSE sock[c]]
    /\ UNCHANGED <<cause, stream, got, nreads, stop, pending, wire, handling,
                   started, sendfails, access, uncaught>>

(***************************************************************************)
(* handle_client: one thread per accepted connection.                      *)
(***************************************************************************)
\* line 93: the condition under which the reader makes another recv call
reader_continues(s, n) == ~has_terminator(s, n) /\ n < MAX_REQUEST_BYTES

\* the socket closed at the end of the try body instead of in a finally clause
close_without_finally(how) == IF how = "raise" THEN "open" ELSE "closed"

\* lines 85-86: the socket after handle_client is left, by return or by an
\* exception that propagates
finally_close(how) == "closed"

\* an exception that leaves a handler taking the accept loop down with it
fault_stops_listener(l) == "stopped"

\* lines 51-53: handle_client runs as the target of a Thread; an exception
\* that leaves it ends that thread and reaches no other: the accept loop is
\* where it was
thread_excepthook(l) == l

\* line 84: the except clause of handle_client
except_clause == send_error(500, "Internal Server Error")

\* line 94 returns the next bytes of the peer: at most RECV_SIZE and at most
\* k of those still to come; the loop condition is then evaluated again
Recv(c, k) ==
    LET n == Min(Min(k, RECV_SIZE), StreamLen(stream[c]) - got[c])
        continues == reader_continues(stream[c], got[c] + n)
    IN  /\ pc[c] = "recv"
        /\ n > 0
        /\ got' = [got EXCEPT ![c] = got[c] + n]
        /\ nreads' = [nreads EXCEPT ![c] = nreads[c] + 1]
        /\ pc' = [pc EXCEPT ![c] = IF continues THEN "recv" ELSE "parse"]
        /\ stop' = [stop EXCEPT ![c] =
                      IF continues THEN "none"
                      ELSE IF has_terminator(stream[c], got[c] + n) THEN "terminator"
                      ELSE "cap"]
        /\ UNCHANGED <<lpc, cause, sock, stream, pending, wire, handling,
                       started, sendfails, access, uncaught>>

\* line 95: the peer has closed after the bytes received so far, whether or
\* not it had more to send; recv returns b""
RecvEof(c) ==
    /\ pc[c] = "recv"
    /\ nreads' = [nreads EXCEPT ![c] = nreads[c] + 1]
    /\ pc' = [pc EXCEPT ![c] = "parse"]
    /\ stop' = [stop EXCEPT ![c] = "eof"]
    /\ UNCHANGED <<lpc, cause, sock, stream, got, pending, wire, handling,
                   started, sendfails, access, uncaught>>

\* line 98: nothing arrives for 2 seconds; socket.timeout is passed over
RecvTimeout(c) ==
    /\ pc[c] = "recv"
    /\ nreads' = [nreads EXCEPT ![c] = nreads[c] + 1]
    /\ pc' = [pc EXCEPT ![c] = "parse"]
    /\ stop' = [stop EXCEPT ![c] = "timeout"]
    /\ UNCHANGED <<lpc, cause, sock, stream, got, pending, wire, handling,
                   started, sendfails, access, uncaught>>

\* recv raises another OSError (a reset connection): it leaves the reader and
\* reaches the except clause of handle_client
RecvFault(c) ==
    /\ pc[c] = "recv"
    /\ nreads' = [nreads EXCEPT ![c] = nreads[c] + 1]
    /\ stop' = [stop EXCEPT ![c] = "fault"]
    /\ handling' = [handling EXCEPT ![c] = TRUE]
    /\ pending' = [pending EXCEPT ![c] = except_clause]
    /\ started' = [started EXCEPT ![c] = Append(started[c], except_clause)]
    /\ pc' = [pc EXCEPT ![c] = "send"]
    /\ UNCHANGED <<lpc, cause, sock, stream, got, wire, sendfails, access, uncaught>>

\* the test of line 64 left out: whatever the reader returned is parsed
every_request_parsed(request) == FALSE

\* a request taken as none unless the end of its headers was received
unterminated_is_no_request(request) ==
    request = <<>> \/ Find[request, CRLF \o CRLF] = 0

\* line 64: "if not request", the reader returned the empty string
no_request(request) == request = <<>>

\* lines 63-82 after the reader has returned, and handle_get up to its first
\* sendall: an empty request returns at once; any other is parsed and the
\* response to it is handed to _send_response
Parse(c, read_ok) ==
    /\ pc[c] = "parse"
    /\ \E request \in {decoded(stream[c], got[c])} :
          IF no_request(request)
          THEN /\ pc' = [pc EXCEPT ![c] = "done"]
               /\ sock' = [sock EXCEPT ![c] = finally_close("return")]
               /\ UNCHANGED <<pending, started, access>>
          ELSE \E r \in {parse_request(request, read_ok)} :
                 /\ pc' = [pc EXCEPT ![c] = "send"]
                 /\ pending' = [pending EXCEPT ![c] = r.sends]
                 /\ started' = [started EXCEPT ![c] = Append(started[c], r.sends)]
                 /\ access' = [access EXCEPT ![c] = [r EXCEPT !.sends = <<>>]]
                 /\ UNCHANGED sock
    /\ stop' = [stop EXCEPT ![c] = "none"]
    /\ UNCHANGED <<lpc, cause, stream, got, nreads, wire, handling,
                   sendfails, uncaught>>

\* lines 157-160: one sendall succeeds; after the last one handle_client is
\* left and its finally clause runs
Send(c) ==
    /\ pc[c] = "send"
    /\ pending[c] # <<>>
    /\ wire' = [wire EXCEPT ![c] = Append(wire[c], Head(pending[c]))]
    /\ pending' = [pending EXCEPT ![c] = Tail(pending[c])]
    /\ IF Tail(pending[c]) = <<>>
       THEN /\ pc' = [pc EXCEPT ![c] = "done"]
            /\ sock' = [sock EXCEPT ![c] = finally_close("return")]
       ELSE UNCHANGED <<pc, sock>>
    /\ UNCHANGED <<lpc, cause, stream, got, nreads, stop, handling, started,
                   sendfails, access, uncaught>>

\* one sendall raises (a broken pipe, or the 2 second timeout of line 90,
\* which holds for sends too).  _send_response, send_ok, send_error and
\* handle_get catch nothing, so the exception reaches the except clause of
\* handle_client, which calls send_error(500); raised inside that clause it
\* leaves handle_client through the finally clause
SendFail(c) ==
    /\ pc[c] = "send"
    /\ pending[c] # <<>>
    /\ sendfails' = [sendfails EXCEPT ![c] = sendfails[c] + 1]
    /\ IF ~handling[c]
       THEN /\ handling' = [handling EXCEPT ![c] = TRUE]
            /\ pending' = [pending EXCEPT ![c] = except_clause]
            /\ started' = [started EXCEPT ![c] = Append(started[c], except_clause)]
            /\ UNCHANGED <<pc, sock, uncaught, lpc>>
       ELSE /\ uncaught' = [uncaught EXCEPT ![c] = TRUE]
            /\ pending' = [pending EXCEPT ![c] = <<>>]
            /\ pc' = [pc EXCEPT ![c] = "done"]
            /\ sock' = [sock EXCEPT ![c] = finally_close("raise")]
            /\ lpc' = thread_excepthook(lpc)
            /\ UNCHANGED <<handling, started>>
    /\ UNCHANGED <<cause, stream, got, nreads, stop, wire, access>>

HandlerStep(c) ==
    \/ \E k \in {RECV_SIZE - 1, RECV_SIZE} : Recv(c, k)
    \/ RecvEof(c)
    \/ RecvTimeout(c)
    \/ RecvFault(c)
    \/ \E read_ok \in BOOLEAN : Parse(c, read_ok)
    \/ Send(c)
    \/ SendFail(c)

(***************************************************************************)
(* The peers of the concurrent runs.                                       *)
(***************************************************************************)
Line(m, t, v) == [toks |-> <<m, t, v>>, tail |-> CRLF \o CRLF, fill |-> 0]

\* the peers of the concurrent runs all send one complete request; a peer that
\* sends nothing, or stalls, or is reset shows as an end of the reader loop
SmallStreams == { Line(GET, <<"/", "a">>, HTTP11) }

Next ==
    \/ \E c \in Conns : accept_ready(c) /\ \E s \in SmallStreams : Accept(c, s)
    \/ \E c \in Conns : StartFails(c)
    \/ AcceptFails
    \/ Interrupt
    \/ Exit
    \/ \E c \in Conns : HandlerStep(c)

Spec == Init /\ [][Next]_vars

\* the threads are scheduled and the blocking calls return, recv within its
\* timeout and sendall by success or failure; main() returns once start() has
FairSpec == Spec /\ (\A c \in Conns : WF_vars(HandlerStep(c))) /\ WF_vars(Exit)

(***************************************************************************)
(* One connection and every request line of a bounded shape.               *)
(***************************************************************************)
LineTokens == {GET, HEAD, POST, <<"/", "a">>, HTTP11, HTTP20}

\* the request lines of at most MaxLineTokens tokens
TokenLines == UNION {[1..n -> LineTokens] : n \in 0..MaxLineTokens}

TargetPieces ==
    { <<"/">>,
      <<".", ".", "/">>,
      <<"%", "2", "e", "%", "2", "E", "/">>,
      <<".", ".", "%", "2", "f">>,
      <<"a">>,
      <<"s">>,
      <<"w", "w", "w", "w">>,
      <<"w", "w", "w", "/">> }

\* targets with a query, of an empty file, of a directory, of a name that
\* holds an encoded "%", of the root by its own absolute path
MoreTargets ==
    { <<"/", "a", "?", ".", ".", "/", "s">>,
      <<"/", "?", "/", "/", "s">>,
      <<"/", "e">>,
      <<"/", "d">>,
      <<"/", "d", "/">>,
      <<"/", "n", "/">>,
      <<"/", "%", "2", "5", "2", "e", "%", "2", "5", "2", "e", "/", "s">>,
      <<"/", "/", "/", "s", "r", "v", "/", "w", "w", "w", "/", "a">>,
      <<"/", ".", ".", "%", "2", "F", ".", ".", "%", "2", "F", "s">> }

\* the request targets of at most MaxTargetPieces pieces
Targets ==
    {Concat[ps] : ps \in UNION {[1..n -> TargetPieces] : n \in 0..MaxTargetPieces}}

RequestStreams ==
    {[toks |-> t, tail |-> CRLF \o CRLF, fill |-> 0] : t \in TokenLines}
    \cup {Line(m, t, v) : m \in {GET, HEAD},
                           t \in (Targets \cup MoreTargets) \ {<<>>},
                           v \in {HTTP11}}
    \cup {Line(GET, <<"/", "a">>, HTTP10),
          [toks |-> <<GET, <<"/", "a">>, HTTP10>>, tail |-> CRLF, fill |-> 0],
          [toks |-> <<GET, <<"/", "a">> >>, tail |-> <<>>, fill |-> 0]}

NextRequest ==
    \/ accept_ready(1) /\ \E s \in RequestStreams : Accept(1, s)
    \/ HandlerStep(1)

SpecRequest == Init /\ [][NextRequest]_vars

(***************************************************************************)
(* One connection whose peer keeps sending header bytes.                   *)
(***************************************************************************)
BigStream ==
    [toks |-> <<GET, <<"/", "a">>, HTTP11>>,
     tail |-> CRLF \o <<"X", ":", " ">>,
     fill |-> MAX_REQUEST_BYTES + RECV_SIZE]

\* a peer that sends a request line and part of a header, then closes
ShortStream == [BigStream EXCEPT !.fill = 0]

\* a peer that stops in the middle of the request line
TruncatedLine == [toks |-> <<GET, <<"/", "a">> >>, tail |-> <<>>, fill |-> 0]

ReaderStreams == {BigStream, ShortStream, TruncatedLine, Line(GET, <<"/", "a">>, HTTP11)}

NextReader ==
    \/ accept_ready(1) /\ \E s \in ReaderStreams : Accept(1, s)
    \/ HandlerStep(1)

SpecReader == Init /\ [][NextReader]_vars

(***************************************************************************)
(* Vocabulary of the properties.                                           *)
(***************************************************************************)
Toks(c) == stream[c].toks

\* the first response of connection c came from the parser, which saw
\* everything the peer sent
Parsed(c) ==
    started[c] # <<>> /\ stop[c] # "fault" /\ got[c] = StreamLen(stream[c])

FirstResponse(c) == started[c][1]

FirstCode(c) == FirstResponse(c)[1].code

HeaderValue(resp, name) ==
    LET hs == resp[2].headers
        i == CHOOSE j \in 1..Len(hs) : hs[j][1] = name
    IN  hs[i][2]

BodyOf(resp) == IF Len(resp) >= 3 THEN resp[3].body ELSE <<>>

ValidRequest(c, methods) ==
    /\ Parsed(c)
    /\ Len(Toks(c)) = 3
    /\ Toks(c)[1] \in methods
    /\ Toks(c)[3] \in {HTTP10, HTTP11}

\* the components of the document root
RootComps == << <<"s", "r", "v">>, <<"w", "w", "w">> >>

UnderRoot(comps) ==
    Len(comps) >= Len(RootComps) /\ SubSeq(comps, 1, Len(RootComps)) = RootComps

\* where a walk over path components ends, starting below acc
RefWalk[comps \in Seq(Seq(STRING)), acc \in Seq(Seq(STRING))] ==
    IF comps = <<>> THEN acc
    ELSE IF Head(comps) \in {<<>>, <<".">>} THEN RefWalk[Tail(comps), acc]
    ELSE IF Head(comps) = <<".", ".">>
         THEN RefWalk[Tail(comps),
                      IF acc = <<>> THEN acc ELSE SubSeq(acc, 1, Len(acc) - 1)]
    ELSE RefWalk[Tail(comps), Append(acc, Head(comps))]

\* a request target names a place outside the document root: the query is
\* cut off, the rest is percent-decoded, one leading "/" is dropped, and the
\* result is walked from the root, or from the top when it is absolute
Escapes(target) ==
    LET decoded_path == unquote[SplitFirst[target, <<"?">>]]
        rel == IF decoded_path # <<>> /\ decoded_path[1] = "/"
               THEN Tail(decoded_path) ELSE decoded_path
        base == IF rel # <<>> /\ rel[1] = "/" THEN <<>> ELSE RootComps
    IN  ~UnderRoot(RefWalk[SplitOn[rel, "/"], base])

(***************************************************************************)
(* C1  Exactly one response per accepted connection.                       *)
(***************************************************************************)
\* C1: on every connection at most one response is ever started, and a
\* handler that has closed its connection has started exactly one.
C1_ExactlyOneResponse ==
    \A c \in Conns :
        /\ Len(started[c]) <= 1
        /\ pc[c] = "done" => Len(started[c]) = 1

(***************************************************************************)
(* C2  Traversal is refused before the filesystem is touched.              *)
(***************************************************************************)
\* C2: a path handle_get tests or opens lies under the document root, and a
\* GET or HEAD whose target names a place outside the root is answered 403
\* with no existence test and no open of the resolved path.
C2_TraversalRefused ==
    \A c \in Conns :
        /\ (access[c].tested \/ access[c].opened)
              => UnderRoot(WalkComps[access[c].file_path])
        /\ (ValidRequest(c, {GET, HEAD}) /\ Escapes(Toks(c)[2]))
              => /\ FirstCode(c) = 403
                 /\ ~access[c].tested
                 /\ ~access[c].opened

\* a percent-encoded traversal to a file that exists outside the root has
\* been answered 403
C2_Witness ==
    \E c \in Conns :
        /\ ValidRequest(c, {GET, HEAD})
        /\ Escapes(Toks(c)[2])
        /\ Find[Toks(c)[2], <<"%">>] # 0
        /\ isfile(access[c].file_path)
        /\ FirstCode(c) = 403
        /\ pc[c] = "done"

(***************************************************************************)
(* C3  GET of an existing file.                                            *)
(***************************************************************************)
ServesFile(c, method) ==
    /\ ValidRequest(c, {method})
    /\ UnderRoot(WalkComps[access[c].file_path])
    /\ isfile(access[c].file_path)

FileOf(c) == FileContent(FsKey[access[c].file_path])

GetResponseIsFile(c) ==
    /\ FirstCode(c) = 200
    /\ HeaderValue(FirstResponse(c), "Content-Length") = Decimal[BodyLen[FileOf(c)]]
    /\ BodyOf(FirstResponse(c)) = FileOf(c)
    /\ (pc[c] = "done" /\ sendfails[c] = 0) => wire[c] = FirstResponse(c)

\* C3 as stated: every valid GET of an existing regular file under the root
\* is answered 200 with the file's length and the file's bytes.
C3_GetServesFile ==
    \A c \in Conns : ServesFile(c, GET) => GetResponseIsFile(c)

\* C3 as amended: it is so when the file can be opened and read, and the
\* answer is 500 when it cannot.
C3_GetServesReadableFile ==
    \A c \in Conns :
        ServesFile(c, GET) =>
            /\ access[c].read = "ok" => GetResponseIsFile(c)
            /\ access[c].read = "error" => FirstCode(c) = 500
            /\ access[c].read # "none"

\* a GET of a file that is not empty has been answered in full
C3_Witness ==
    \E c \in Conns :
        /\ ServesFile(c, GET)
        /\ access[c].read = "ok"
        /\ BodyLen[FileOf(c)] > 0
        /\ pc[c] = "done"
        /\ wire[c] = FirstResponse(c)

(***************************************************************************)
(* C4  HEAD of an existing file.                                           *)
(***************************************************************************)
HeadResponseIsBodiless(c) ==
    /\ FirstCode(c) = 200
    /\ HeaderValue(FirstResponse(c), "Content-Length") = Decimal[BodyLen[FileOf(c)]]
    /\ \A i \in 1..Len(FirstResponse(c)) : FirstResponse(c)[i].k # "body"
    /\ (pc[c] = "done" /\ sendfails[c] = 0) =>
           /\ wire[c] = FirstResponse(c)
           /\ \A i \in 1..Len(wire[c]) : wire[c][i].k # "body"

AllowedCodes(toks) ==
    IF Len(toks) # 3 THEN {400}
    ELSE IF toks[3] \notin {HTTP10, HTTP11} THEN {400}
    ELSE IF toks[1] \notin {GET, HEAD} THEN {405}
    ELSE {200, 403, 404, 500}

\* C5: a request line is answered 400 when it has not exactly 3 tokens,
\* else 400 when its version is not HTTP/1.0 or HTTP/1.1, else 405 when its
\* method is not GET or HEAD, and only else is a path resolved.
C5_CheckOrder ==
    \A c \in Conns :
        Parsed(c) =>
            /\ FirstCode(c) \in AllowedCodes(Toks(c))
            /\ access[c].file_path # <<>> <=> ValidRequest(c, {GET, HEAD})

\* a POST with version HTTP/2.0 has been answered 400, and a request of four
\* tokens too
C5_Witness ==
    \E c \in Conns :
        /\ Parsed(c)
        /\ Toks(c) = <<POST, <<"/", "a">>, HTTP20>>
        /\ FirstCode(c) = 400
        /\ pc[c] = "done"

(***************************************************************************)
(* C6  Every handler ends with its socket closed.                          *)
(***************************************************************************)
\* C6: a handler that has left handle_client has closed its socket, by
\* whichever path it left; a closed socket is never open again and its
\* handler takes no further step; the reader makes at most one recv call more
\* than it has bytes; and every connection handed to a handler is closed in
\* the end.
C6_HandlerClosesSocket ==
    /\ [](\A c \in Conns : /\ pc[c] = "done" => sock[c] = "closed"
                           /\ nreads[c] <= got[c] + 1)
    /\ [][\A c \in Conns : sock[c] = "closed" =>
              /\ sock'[c] = "closed"
              /\ pc'[c] = pc[c]]_vars
    /\ \A c \in Conns : (InFlight(c) /\ sock[c] = "open") ~> (sock[c] = "closed")

\* a handler left by an exception raised inside its except clause, and its
\* socket is closed
C6_Witness ==
    \E c \in Conns : uncaught[c] /\ pc[c] = "done" /\ sock[c] = "closed"

C8_AcceptNeverWaits ==
    \A c \in Conns :
        (lpc = "accept" /\ NextToArrive(c)) =>
            ENABLED (\E s \in SmallStreams : Accept(c, s))

\* a connection was accepted while the handler of an earlier one was, and
\* still is, blocked in its first recv
C8_Witness ==
    \E c, d \in Conns : c < d /\ pc[c] = "recv" /\ got[c] = 0 /\ pc[d] = "recv"

(***************************************************************************)
(* C9  The size of the request buffer.                                     *)
(***************************************************************************)
\* C9: the reader never holds more than MAX_REQUEST_BYTES bytes.
C9_BufferWithinCap ==
    \A c \in Conns : got[c] <= MAX_REQUEST_BYTES

(***************************************************************************)
(* C10  A failed send.                                                     *)
(***************************************************************************)
\* C10: once a sendall has failed, the handler is over: nothing propagated,
\* no further response was started for the connection.
C10_SendFailureSwallowed ==
    \A c \in Conns :
        sendfails[c] > 0 =>
            /\ ~InFlight(c)
            /\ Len(started[c]) <= 1
            /\ ~uncaught[c]

(***************************************************************************)
(* C11  A connection that sends nothing.                                   *)
(***************************************************************************)
\* C11: when the reader has ended by a close of the peer or by its timeout
\* with no byte received, no response is started and nothing is written, and
\* the handler ends with the socket closed.
C11_SilentClose ==
    \A c \in Conns :
        (got[c] = 0 /\ stop[c] # "fault" /\ pc[c] \notin {"idle", "unstarted"}) =>
            /\ started[c] = <<>>
            /\ wire[c] = <<>>
            /\ pc[c] \in {"recv", "parse", "done", "killed"}
            /\ pc[c] = "done" => sock[c] = "closed"

\* a handler whose one recv call returned nothing has ended, its socket closed
C11_Witness ==
    \E c \in Conns :
        /\ got[c] = 0
        /\ nreads[c] = 1
        /\ stop[c] # "fault"
        /\ pc[c] = "done"
        /\ sock[c] = "closed"
        /\ wire[c] = <<>>

(***************************************************************************)
(* C12  Directory targets and index.html.                                  *)
(***************************************************************************)
\* a target without its query, percent-decoded, one leading "/" dropped
RelOf(target) ==
    LET decoded_path == unquote[SplitFirst[target, <<"?">>]]
    IN  IF decoded_path # <<>> /\ decoded_path[1] = "/"
        THEN Tail(decoded_path) ELSE decoded_path

IndexTarget(target) ==
    RelOf(target) = <<>> \/ RelOf(target)[Len(RelOf(target))] = "/"

\* the place a target names, walked from the root, or from the top when what
\* is left of it is absolute
PlaceOf(target) ==
    RefWalk[SplitOn[RelOf(target), "/"],
            IF RelOf(target) # <<>> /\ RelOf(target)[1] = "/" THEN <<>> ELSE RootComps]

KeyOf(comps) == "/" \o Str[JoinWith[comps, <<"/">>]]

\* the index.html of the directory an index target names
IndexKey(target) == KeyOf(Append(PlaceOf(target), IndexName))

IsFileResponse(resp, key) ==
    /\ resp[1].code = 200
    /\ BodyOf(resp) = FileContent(key)

\* C12 as stated: a valid GET of an index target is answered 200 with the
\* index.html of the directory when that is a regular file and 404 when it
\* is not, and a GET of a directory without a trailing "/" is answered 404.
C12_IndexResolved ==
    \A c \in Conns :
        ValidRequest(c, {GET}) =>
            /\ IndexTarget(Toks(c)[2]) =>
                   IF IndexKey(Toks(c)[2]) \in RegularFiles
                   THEN IsFileResponse(FirstResponse(c), IndexKey(Toks(c)[2]))
                   ELSE FirstCode(c) = 404
            /\ (~IndexTarget(Toks(c)[2])
                  /\ KeyOf(PlaceOf(Toks(c)[2])) \in Directories) => FirstCode(c) = 404

\* C12 as amended: it is so for the directories under the document root whose
\* index.html can be opened and read; an index.html that cannot be read is
\* answered 500, and a directory outside the root 403, with or without a
\* trailing "/" and whether or not it holds an index.html.
C12_IndexResolvedInRoot ==
    \A c \in Conns :
        ValidRequest(c, {GET}) =>
            /\ (IndexTarget(Toks(c)[2]) /\ ~Escapes(Toks(c)[2])) =>
                   /\ FsKey[access[c].file_path] = IndexKey(Toks(c)[2])
                   /\ IF IndexKey(Toks(c)[2]) \in RegularFiles
                      THEN IF access[c].read = "ok"
                           THEN IsFileResponse(FirstResponse(c), IndexKey(Toks(c)[2]))
                           ELSE FirstCode(c) = 500 /\ access[c].read = "error"
                      ELSE FirstCode(c) = 404
            /\ (~IndexTarget(Toks(c)[2]) /\ ~Escapes(Toks(c)[2])
                  /\ KeyOf(PlaceOf(Toks(c)[2])) \in Directories) => FirstCode(c) = 404
            /\ Escapes(Toks(c)[2]) => FirstCode(c) = 403
            /\ FirstCode(c) = 200 =>
                   BodyOf(FirstResponse(c)) = FileContent(FsKey[access[c].file_path])

\* the index.html of a directory has been served in full for a target that,
\* its leading "/" dropped, is not empty and ends with "/"
C12_Witness ==
    \E c \in Conns :
        /\ ValidRequest(c, {GET})
        /\ IndexTarget(Toks(c)[2])
        /\ RelOf(Toks(c)[2]) # <<>>
        /\ ~Escapes(Toks(c)[2])
        /\ IndexKey(Toks(c)[2]) \in RegularFiles
        /\ FirstCode(c) = 200
        /\ pc[c] = "done"
        /\ wire[c] = FirstResponse(c)

(***************************************************************************)
(* C13  Error pages.                                                       *)
(***************************************************************************)
\* the status text that goes with an error status
ReasonOf(code) ==
    CASE code = 400 -> "Bad Request"
      [] code = 403 -> "Forbidden"
      [] code = 404 -> "Not Found"
      [] code = 405 -> "Method Not Allowed"
      [] code = 500 -> "Internal Server Error"

\* the responses started so far, on every connection
AllStarted == UNION {{started[c][i] : i \in 1..Len(started[c])} : c \in Conns}

ErrorResponses == {r \in AllStarted : r[1].code # 200}

\* C13: an error response has one of the five error statuses, the text that
\* goes with it, Content-Type text/html; charset=utf-8, and as its body the
\* page made of that status and text alone; two error responses of the same
\* status have the same body, whatever request or fault they answer.
C13_ErrorPageByStatus ==
    /\ \A r \in ErrorResponses :
          /\ r[1].code \in {400, 403, 404, 405, 500}
          /\ r[1].text = ReasonOf(r[1].code)
          /\ HeaderValue(r, "Content-Type") = "text/html; charset=utf-8"
          /\ BodyOf(r) = ErrorPage(r[1].code, ReasonOf(r[1].code))
    /\ \A r1, r2 \in ErrorResponses :
          r1[1].code = r2[1].code => BodyOf(r1) = BodyOf(r2)

\* on one connection a 500 answered a file that could not be read and, after
\* a send of it failed, a second 500 answered that failure
C13_Witness ==
    \E c \in Conns :
        /\ Len(started[c]) = 2
        /\ access[c].read = "error"
        /\ started[c][1][1].code = 500
        /\ started[c][2][1].code = 500
        /\ sendfails[c] > 0

(***************************************************************************)
(* C14  Repeated GETs of one path.                                         *)
(***************************************************************************)
\* two connections, the one accepted before the other, sent the same valid
\* GET, whose target names an existing file under the root
SameGet(c, d) ==
    /\ c < d
    /\ started[c] # <<>>
    /\ started[d] # <<>>
    /\ Toks(c) = Toks(d)
    /\ ValidRequest(d, {GET})
    /\ ServesFile(c, GET)

SameAnswer(c, d) ==
    /\ BodyOf(FirstResponse(c)) = BodyOf(FirstResponse(d))
    /\ HeaderValue(FirstResponse(c), "Content-Length")
         = HeaderValue(FirstResponse(d), "Content-Length")

C15_HeadNeverHasBody ==
    \A c \in Conns :
        ValidRequest(c, {HEAD}) =>
            \A i \in 1..Len(wire[c]) : wire[c][i].k # "body"

(***************************************************************************)
(* C16  The framing of a response.                                         *)
(***************************************************************************)
\* the responses started on connection c
StartedOn(c) == {started[c][i] : i \in 1..Len(started[c])}

\* the 200 response to a HEAD, whose Content-Length is that of the file
HeadOk(c, r) == r[1].code = 200 /\ Len(Toks(c)) = 3 /\ Toks(c)[1] = HEAD

Framed(r) ==
    /\ Len(r) \in {2, 3}
    /\ r[1].k = "line"
    /\ response_line(r[1])
         = "HTTP/1.1 " \o Decimal[r[1].code] \o " " \o r[1].text \o "\r\n"
    /\ r[2].k = "headers"
    /\ Len(r[2].headers) = 5
    /\ header_text(r[2])
         = "Date: " \o r[2].headers[1][2] \o "\r\n"
           \o "Server: " \o r[2].headers[2][2] \o "\r\n"
           \o "Content-Length: " \o r[2].headers[3][2] \o "\r\n"
           \o "Connection: close\r\n"
           \o "Content-Type: " \o r[2].headers[5][2] \o "\r\n"
           \o "\r\n"
    /\ Len(r) = 3 => r[3].k = "body" /\ BodyLen[r[3].body] > 0

\* C16: every response is a status line "HTTP/1.1 code text", the headers
\* Date, Server, Content-Length, Connection: close and Content-Type in that
\* order with the empty line after them, then the body; its Content-Length
\* is the number of bytes of its body unless it is the 200 response to a
\* HEAD; and what is written on a connection on which no send failed is the
\* response, from its start and in that order.
C16_ResponseFraming ==
    \A c \in Conns :
        /\ \A r \in StartedOn(c) :
              /\ Framed(r)
              /\ ~HeadOk(c, r) =>
                     HeaderValue(r, "Content-Length") = Decimal[BodyLen[BodyOf(r)]]
        /\ (sendfails[c] = 0 /\ started[c] # <<>>) =>
               /\ Len(wire[c]) <= Len(FirstResponse(c))
               /\ wire[c] = SubSeq(FirstResponse(c), 1, Len(wire[c]))

\* a 200 response of type text/html has been written in full, body included,
\* on a connection where no send failed
C16_Witness ==
    \E c \in Conns :
        /\ pc[c] = "done"
        /\ sendfails[c] = 0
        /\ started[c] # <<>>
        /\ wire[c] = FirstResponse(c)
        /\ Len(wire[c]) = 3
        /\ FirstCode(c) = 200
        /\ HeaderValue(FirstResponse(c), "Content-Type") = "text/html"

(***************************************************************************)
(* C17  The file is read before the response starts.                       *)
(***************************************************************************)
Codes(resps) == {resps[i][1].code : i \in 1..Len(resps)}

WireCodes(c) == {wire[c][i].code : i \in {j \in 1..Len(wire[c]) : wire[c][j].k = "line"}}

\* C17: a 200 is started, and its status line written, only after the whole
\* file was read; when the open or the read fails the response is the 500
\* and no 200, whole or in part, is started or written.
C17_ReadBeforeWrite ==
    \A c \in Conns :
        /\ (200 \in Codes(started[c]) \/ 200 \in WireCodes(c)) => access[c].read = "ok"
        /\ access[c].read = "error" =>
               /\ started[c] # <<>>
               /\ Codes(started[c]) = {500}
               /\ WireCodes(c) \subseteq {500}
               /\ FirstResponse(c) = send_error(500, "Internal Server Error")

\* the read of an existing file failed and the 500 has been written in full
C17_Witness ==
    \E c \in Conns :
        /\ access[c].read = "error"
        /\ access[c].opened
        /\ isfile(access[c].file_path)
        /\ pc[c] = "done"
        /\ sendfails[c] = 0
        /\ wire[c] = FirstResponse(c)
        /\ FirstCode(c) = 500

(***************************************************************************)
(* C18  What ends the accept loop.                                         *)
(***************************************************************************)
\* C18: the accept loop is left only by the interrupt.
C18_OnlyInterruptEndsLoop ==
    lpc # "accept" => cause = "interrupt"

(***************************************************************************)
(* C19  Handlers are isolated.                                             *)
(***************************************************************************)
\* everything the model holds about connection c
PerConn(c) ==
    <<pc[c], sock[c], stream[c], got[c], nreads[c], stop[c], pending[c], wire[c],
      handling[c], started[c], sendfails[c], access[c], uncaught[c]>>

\* the responses the request of connection c can be given, by what the peer
\* sent and by the faults of its own handler alone
OwnAnswers(c) ==
    {parse_request(decoded(stream[c], got[c]), ok).sends : ok \in BOOLEAN}

\* C19: a step of a handler, a fault included, leaves the accept loop and
\* every other connection as they were; the accept loop is never ended by a
\* handler; and a response started on a connection is the one its own
\* request determines, or the 500 of its own fault, whatever the other
\* handlers do.
C19_HandlersIsolated ==
    /\ [](\A c \in Conns : Len(started[c]) <= 2)
    /\ [](lpc # "accept" => cause # "none")
    /\ [][\A c \in Conns :
             started'[c] # started[c] =>
                 /\ started'[c] = Append(started[c], started'[c][Len(started'[c])])
                 /\ IF started[c] = <<>> /\ stop'[c] # "fault"
                    THEN started'[c][1] \in OwnAnswers(c)
                    ELSE started'[c][Len(started'[c])] = except_clause]_vars
    /\ [][\A c \in Conns :
             (InFlight(c) /\ PerConn(c)' # PerConn(c) /\ lpc' # "exited") =>
                 /\ lpc' = lpc
                 /\ cause' = cause
                 /\ \A d \in Conns \ {c} : PerConn(d)' = PerConn(d)]_vars

\* an exception has left one handler, the accept loop runs on, and another
\* connection has been given its whole 200 response
C19_Witness ==
    \E c, d \in Conns :
        /\ c # d
        /\ uncaught[c]
        /\ lpc = "accept"
        /\ pc[d] = "done"
        /\ sendfails[d] = 0
        /\ started[d] # <<>>
        /\ FirstCode(d) = 200
        /\ wire[d] = FirstResponse(d)

(***************************************************************************)
(* C20  A request without the end of its headers.                          *)
(***************************************************************************)
\* the handler of c goes on from the reader, which returned bytes
LeavesReader(c) ==
    pc[c] = "parse" /\ pc'[c] \notin {"parse", "killed"} /\ got[c] > 0

\* C20: when the reader has ended with bytes in its buffer, by the end of
\* the headers, by its timeout, by a close of the peer or by the cap, the
\* handler starts one response, with the status the first line calls for:
\* 400 for a line cut short, 200 for a whole line that asks for a file which
\* exists and can be read; and no handler that received bytes ends without
\* a response started.
C20_ServedWithoutTerminator ==
    /\ [][\A c \in Conns :
             LeavesReader(c) =>
                 /\ stop[c] \in {"terminator", "timeout", "eof", "cap"}
                 /\ stop[c] = "terminator" <=> has_terminator(stream[c], got[c])
                 /\ stop[c] = "cap" =>
                        got[c] >= MAX_REQUEST_BYTES /\ ~has_terminator(stream[c], got[c])
                 /\ pc'[c] = "send"
                 /\ Len(started'[c]) = 1
                 /\ pending'[c] = started'[c][1]
                 /\ started'[c][1][1].code \in AllowedCodes(Toks(c))
                 /\ Len(Toks(c)) < 3 => started'[c][1][1].code = 400
                 /\ (Toks(c) = <<GET, <<"/", "a">>, HTTP11>> /\ access'[c].read = "ok") =>
                        /\ started'[c][1][1].code = 200
                        /\ BodyOf(started'[c][1]) = FileContent("/srv/www/a")]_vars
    /\ [](\A c \in Conns : (pc[c] = "done" /\ got[c] > 0) => started[c] # <<>>)

\* a request line followed by no end of headers has been answered 200 in
\* full after the reader stopped at its cap
C20_Witness ==
    \E c \in Conns :
        /\ got[c] >= MAX_REQUEST_BYTES
        /\ ~has_terminator(stream[c], got[c])
        /\ pc[c] = "done"
        /\ started[c] # <<>>
        /\ FirstCode(c) = 200
        /\ wire[c] = FirstResponse(c)

====
